---------------------------- MODULE Spec2Model ----------------------------
(***************************************************************************)
(* A model of aletheia, a client for the Guardian content API:             *)
(* the request builder (GuardianRequestBuilder), its encoders              *)
(* (helpers::generate_sequence, generate_blocks, datetime) and the         *)
(* dispatcher (send).                                                      *)
(*                                                                         *)
(* Strings are TLA+ strings, built with \o as the code builds them.        *)
(* Option<T> is a sequence: << >> is None and <<v>> is Some(v).            *)
(* An enum value is the string of its Rust path, "Field::ShortUrl"; a      *)
(* Block is a record [tag |-> "Block::BodyLatestWith", n |-> 5].           *)
(***************************************************************************)
EXTENDS Integers, Sequences, FiniteSets, TLC

VARIABLES
    request,          \* GuardianRequestBuilder.request : HashMap<String, String>
    endpoint,         \* GuardianRequestBuilder.endpoint : Endpoint
    api_key,          \* GuardianRequestBuilder.api_key : String
    panicked,         \* a call panicked; the builder it consumed is gone
    last,             \* the last call made: its name, arguments and outcome
    written,          \* history: the parameters the setters wrote since the
                      \* builder was built or last returned Ok from send
    other             \* a second builder built from the same client, held
                      \* by another owner while this one is being used

vars == <<request, endpoint, api_key, panicked, last, written, other>>

None == << >>
Some(v) == <<v>>

-----------------------------------------------------------------------------
(* enums.rs: the controlled vocabularies and their Display (strum) tokens. *)

OrderBy == {"OrderBy::Newest", "OrderBy::Oldest", "OrderBy::Relevance"}

OrderDate ==
    {"OrderDate::Published", "OrderDate::NewspaperEdition", "OrderDate::LastModified"}

UseDate ==
    {"UseDate::Published", "UseDate::FirstPublication",
     "UseDate::NewspaperEdition", "UseDate::LastModified"}

Field ==
    {"Field::TrailText", "Field::Headline", "Field::ShowInRelatedContent",
     "Field::Body", "Field::BodyText", "Field::LastModified",
     "Field::HasStoryPackage", "Field::Score", "Field::Standfirst",
     "Field::ShortUrl", "Field::Byline", "Field::Thumbnail", "Field::Wordcount",
     "Field::Commentable", "Field::IsPremoderated", "Field::AllowUgc",
     "Field::Publication", "Field::InternalPageCode", "Field::ProductionOffice",
     "Field::ShouldHideAdverts", "Field::LiveBloggingNow",
     "Field::CommentCloseDate", "Field::StarRating", "Field::All"}

Tag ==
    {"Tag::Blog", "Tag::Contributor", "Tag::Keyword", "Tag::NewspaperBook",
     "Tag::NewspaperBookSection", "Tag::Publication", "Tag::Series", "Tag::Tone",
     "Tag::Type", "Tag::All"}

Endpoint ==
    {"Endpoint::Content", "Endpoint::Tags", "Endpoint::Sections",
     "Endpoint::Editions", "Endpoint::SingleItem"}

\* #[default] Content
EndpointDefault == "Endpoint::Content"

\* The unit variants of Block; the payload-bearing ones are records too.
BlockUnitTags ==
    {"Block::Main", "Block::Body", "Block::All", "Block::BodyLatest",
     "Block::BodyOldest", "Block::BodyKeyEvents"}

\* #[derive(Display)] #[strum(serialize_all = ...)]: kebab-case for every enum
\* but Field, which is camelCase.
to_string(v) ==
    CASE v = "OrderBy::Newest" -> "newest"
      [] v = "OrderBy::Oldest" -> "oldest"
      [] v = "OrderBy::Relevance" -> "relevance"
      [] v = "OrderDate::Published" -> "published"
      [] v = "OrderDate::NewspaperEdition" -> "newspaper-edition"
      [] v = "OrderDate::LastModified" -> "last-modified"
      [] v = "UseDate::Published" -> "published"
      [] v = "UseDate::FirstPublication" -> "first-publication"
      [] v = "UseDate::NewspaperEdition" -> "newspaper-edition"
      [] v = "UseDate::LastModified" -> "last-modified"
      [] v = "Field::TrailText" -> "trailText"
      [] v = "Field::Headline" -> "headline"
      [] v = "Field::ShowInRelatedContent" -> "showInRelatedContent"
      [] v = "Field::Body" -> "body"
      [] v = "Field::BodyText" -> "bodyText"
      [] v = "Field::LastModified" -> "lastModified"
      [] v = "Field::HasStoryPackage" -> "hasStoryPackage"
      [] v = "Field::Score" -> "score"
      [] v = "Field::Standfirst" -> "standfirst"
      [] v = "Field::ShortUrl" -> "shortUrl"
      [] v = "Field::Byline" -> "byline"
      [] v = "Field::Thumbnail" -> "thumbnail"
      [] v = "Field::Wordcount" -> "wordcount"
      [] v = "Field::Commentable" -> "commentable"
      [] v = "Field::IsPremoderated" -> "isPremoderated"
      [] v = "Field::AllowUgc" -> "allowUgc"
      [] v = "Field::Publication" -> "publication"
      [] v = "Field::InternalPageCode" -> "internalPageCode"
      [] v = "Field::ProductionOffice" -> "productionOffice"
      [] v = "Field::ShouldHideAdverts" -> "shouldHideAdverts"
      [] v = "Field::LiveBloggingNow" -> "liveBloggingNow"
      [] v = "Field::CommentCloseDate" -> "commentCloseDate"
      [] v = "Field::StarRating" -> "starRating"
      [] v = "Field::All" -> "all"
      [] v = "Tag::Blog" -> "blog"
      [] v = "Tag::Contributor" -> "contributor"
      [] v = "Tag::Keyword" -> "keyword"
      [] v = "Tag::NewspaperBook" -> "newspaper-book"
      [] v = "Tag::NewspaperBookSection" -> "newspaper-book-section"
      [] v = "Tag::Publication" -> "publication"
      [] v = "Tag::Series" -> "series"
      [] v = "Tag::Tone" -> "tone"
      [] v = "Tag::Type" -> "type"
      [] v = "Tag::All" -> "all"
      [] v = "Block::Main" -> "main"
      [] v = "Block::Body" -> "body"
      [] v = "Block::All" -> "all"
      [] v = "Endpoint::Content" -> "content"
      [] v = "Endpoint::Tags" -> "tags"
      [] v = "Endpoint::Sections" -> "sections"
      [] v = "Endpoint::Editions" -> "editions"
      [] v = "Endpoint::SingleItem" -> "single-item"

\* impl_is_all!: matches!(self, $enum_type::All)
is_all(item) == item \in {"Field::All", "Tag::All", "Block::All"}

-----------------------------------------------------------------------------
(* Display of the integer types: decimal digits, a leading '-' when        *)
(* negative, no padding. TLC's integers are 32 bits wide, which is the     *)
(* width of every integer the builder formats but Block's i64 timestamp.   *)

Digit(d) ==
    CASE d = 0 -> "0" [] d = 1 -> "1" [] d = 2 -> "2" [] d = 3 -> "3"
      [] d = 4 -> "4" [] d = 5 -> "5" [] d = 6 -> "6" [] d = 7 -> "7"
      [] d = 8 -> "8" [] d = 9 -> "9"

RECURSIVE fmt_unsigned(_)
fmt_unsigned(n) ==
    IF n < 10 THEN Digit(n) ELSE fmt_unsigned(n \div 10) \o Digit(n % 10)

\* Display for i32 / u32 / u8 / i64, as format!("{n}") and n.to_string() use it.
fmt_int(n) ==
    IF n < 0 THEN "-" \o fmt_unsigned(0 - n) ELSE fmt_unsigned(n)

\* Display for bool
fmt_bool(b) == IF b THEN "true" ELSE "false"

-----------------------------------------------------------------------------
(* helpers::generate_sequence (lib.rs 893-914)                             *)

\* One turn of `for item in items`: the early return on All, the separator
\* before every item but the first, then the item's token.
RECURSIVE generate_sequence_loop(_, _, _, _)
generate_sequence_loop(items, i, sequence, first) ==
    IF i > Len(items) THEN sequence
    ELSE IF is_all(items[i]) THEN "all"
    ELSE LET separated == IF ~first THEN sequence \o "," ELSE sequence
         IN  generate_sequence_loop(items, i + 1,
                                    separated \o to_string(items[i]), FALSE)

\* Faulty variant: All is pushed like any other item, with no early return.
RECURSIVE generate_sequence_loop_keeps_all(_, _, _, _)
generate_sequence_loop_keeps_all(items, i, sequence, first) ==
    IF i > Len(items) THEN sequence
    ELSE LET separated == IF ~first THEN sequence \o "," ELSE sequence
         IN  generate_sequence_loop_keeps_all(items, i + 1,
                                              separated \o to_string(items[i]), FALSE)

generate_sequence_keeps_all(items) ==
    generate_sequence_loop_keeps_all(items, 1, "", TRUE)

\* Faulty variant: the separator is pushed after every item, the last included.
RECURSIVE generate_sequence_loop_trailing(_, _, _)
generate_sequence_loop_trailing(items, i, sequence) ==
    IF i > Len(items) THEN sequence
    ELSE IF is_all(items[i]) THEN "all"
    ELSE generate_sequence_loop_trailing(items, i + 1,
                                         sequence \o to_string(items[i]) \o ",")

generate_sequence_trailing(items) == generate_sequence_loop_trailing(items, 1, "")

generate_sequence(items) == generate_sequence_loop(items, 1, "", TRUE)

-----------------------------------------------------------------------------
(* helpers::generate_blocks (lib.rs 916-942)                               *)

BlockAll == [tag |-> "Block::All"]

\* Vec::contains
contains(items, x) == \E i \in 1..Len(items) : items[i] = x

\* [String]::join(",")
RECURSIVE join(_, _)
join(strings, sep) ==
    IF Len(strings) = 0 THEN ""
    ELSE IF Len(strings) = 1 THEN strings[1]
    ELSE strings[1] \o sep \o join(Tail(strings), sep)

\* Faulty variant: BodyOldest given the token its name suggests.
block_to_string_oldest(item) ==
    CASE item.tag \in {"Block::Main", "Block::Body", "Block::All"} ->
             to_string(item.tag)
      [] item.tag = "Block::BodyLatest" -> "body:latest"
      [] item.tag = "Block::BodyLatestWith" -> "body:latest:" \o fmt_int(item.n)
      [] item.tag = "Block::BodyOldest" -> "body:oldest"
      [] item.tag = "Block::BodyOldestWith" -> "body:oldest:" \o fmt_int(item.n)
      [] item.tag = "Block::BodyBlockId" -> "body:" \o item.id
      [] item.tag = "Block::BodyAroundBlockId" -> "body:around:" \o item.id
      [] item.tag = "Block::BodyAroundBlockIdWith" ->
             "body:around:" \o item.id \o ":" \o fmt_int(item.n)
      [] item.tag = "Block::BodyKeyEvents" -> "body:key-events"
      [] item.tag = "Block::BodyPublishedSince" ->
             "body:published-since:" \o fmt_int(item.n)

\* The closure of .map(|item| match item { ... }), lib.rs 923-938.
block_to_string(item) ==
    CASE item.tag = "Block::Main" -> to_string(item.tag)
      [] item.tag = "Block::Body" -> to_string(item.tag)
      [] item.tag = "Block::All" -> to_string(item.tag)
      [] item.tag = "Block::BodyLatest" -> "body:latest"
      [] item.tag = "Block::BodyLatestWith" -> "body:latest:" \o fmt_int(item.n)
      [] item.tag = "Block::BodyOldest" -> "body:latest"
      [] item.tag = "Block::BodyOldestWith" -> "body:oldest:" \o fmt_int(item.n)
      [] item.tag = "Block::BodyBlockId" -> "body:" \o item.id
      [] item.tag = "Block::BodyAroundBlockId" -> "body:around:" \o item.id
      [] item.tag = "Block::BodyAroundBlockIdWith" ->
             "body:around:" \o item.id \o ":" \o fmt_int(item.n)
      [] item.tag = "Block::BodyKeyEvents" -> "body:key-events"
      [] item.tag = "Block::BodyPublishedSince" ->
             "body:published-since:" \o fmt_int(item.n)

\* Faulty variant: All is looked for in the first place only.
generate_blocks_first_only(items) ==
    IF Len(items) > 0 /\ items[1] = BlockAll THEN "all"
    ELSE join([i \in 1..Len(items) |-> block_to_string(items[i])], ",")

generate_blocks(items) ==
    IF contains(items, BlockAll) THEN "all"
    ELSE join([i \in 1..Len(items) |-> block_to_string(items[i])], ",")

-----------------------------------------------------------------------------
(* helpers::datetime (lib.rs 944-968) and the chrono calls it makes.       *)

I32_MAX == 2147483647
I32_MIN == (0 - I32_MAX) - 1

\* i32::abs: overflows on i32::MIN only; the wrapped result is i32::MIN.
abs_overflows(x) == x = I32_MIN
wrapping_abs(x) == IF x < 0 /\ x # I32_MIN THEN 0 - x ELSE x

\* x * 3600 in i32 overflows when the product leaves the i32 range.
mul3600_overflows(x) ==
    \/ x > I32_MAX \div 3600
    \/ x < 0 - (I32_MAX \div 3600)

\* x * 3600 modulo 2^32, read back as an i32 (two's complement), computed on
\* 16-bit limbs so that no intermediate value leaves 32 bits.
wrapping_mul3600(x) ==
    LET lo    == x % 65536
        hi    == (x \div 65536) % 65536
        plo   == lo * 3600
        rlo   == plo % 65536
        rhi   == (hi * 3600 + plo \div 65536) % 65536
    IN  IF rhi >= 32768 THEN (rhi - 65536) * 65536 + rlo
        ELSE rhi * 65536 + rlo

\* FixedOffset::east_opt / west_opt: Some when -86_400 < secs < 86_400; the
\* value is local time minus UTC, in seconds.
east_opt(secs) == IF -86400 < secs /\ secs < 86400 THEN Some(secs) ELSE None
west_opt(secs) == IF -86400 < secs /\ secs < 86400 THEN Some(0 - secs) ELSE None

\* Option::unwrap_or_else
unwrap_or_else(opt, default) == IF opt = None THEN default ELSE opt[1]

\* NaiveDate::from_ymd_opt: a day of the proleptic Gregorian calendar.
is_leap_year(y) == y % 4 = 0 /\ (y % 100 # 0 \/ y % 400 = 0)

days_in_month(y, m) ==
    CASE m \in {1, 3, 5, 7, 8, 10, 12} -> 31
      [] m \in {4, 6, 9, 11} -> 30
      [] m = 2 -> IF is_leap_year(y) THEN 29 ELSE 28

from_ymd_opt(y, m, d) ==
    /\ y >= -262143 /\ y <= 262142
    /\ m >= 1 /\ m <= 12
    /\ d >= 1 /\ d <= days_in_month(y, m)

\* NaiveDate::and_hms_opt
and_hms_opt(hour, min, sec) == hour < 24 /\ min < 60 /\ sec < 60

\* Days since 1970-01-01 of a calendar day, and back.
days_from_civil(y, m, d) ==
    LET yy  == IF m <= 2 THEN y - 1 ELSE y
        era == yy \div 400
        yoe == yy - era * 400
        mp  == IF m > 2 THEN m - 3 ELSE m + 9
        doy == (153 * mp + 2) \div 5 + d - 1
        doe == yoe * 365 + yoe \div 4 - yoe \div 100 + doy
    IN  era * 146097 + doe - 719468

civil_from_days(z) ==
    LET zz  == z + 719468
        era == zz \div 146097
        doe == zz - era * 146097
        yoe == (doe - doe \div 1460 + doe \div 36524 - doe \div 146096) \div 365
        doy == doe - (365 * yoe + yoe \div 4 - yoe \div 100)
        mp  == (5 * doy + 2) \div 153
        d   == doy - (153 * mp + 2) \div 5 + 1
        m   == IF mp < 10 THEN mp + 3 ELSE mp - 9
        y   == yoe + era * 400
    IN  [year |-> IF m <= 2 THEN y + 1 ELSE y, month |-> m, day |-> d]

\* A NaiveDateTime moved by `secs` seconds (|secs| < 86_400).
add_seconds(ndt, secs) ==
    LET t == ndt.secs + secs
    IN  [days |-> ndt.days + t \div 86400, secs |-> t % 86400]

\* TimeZone::with_ymd_and_hms for a FixedOffset: LocalResult::None when the
\* fields are no date-time, else Single(DateTime), which holds the instant in
\* UTC (the local date-time minus the offset) and the offset.
with_ymd_and_hms(offset, year, month, day, hour, min, sec) ==
    IF from_ymd_opt(year, month, day) /\ and_hms_opt(hour, min, sec)
    THEN LET local == [days |-> days_from_civil(year, month, day),
                       secs |-> hour * 3600 + min * 60 + sec]
         IN  Some([utc |-> add_seconds(local, 0 - offset), offset |-> offset])
    ELSE None

\* Zero-padded decimal of width 2, as chrono's write_hundreds writes it.
pad2(n) == IF n < 10 THEN "0" \o fmt_unsigned(n) ELSE fmt_unsigned(n)

\* The year of an RFC 3339 date: four digits within 0..=9999, else "{:+05}".
fmt_year(y) ==
    IF y >= 0 /\ y <= 9999
    THEN pad2(y \div 100) \o pad2(y % 100)
    ELSE LET a == IF y < 0 THEN 0 - y ELSE y
             digits == IF a < 10 THEN "000" \o fmt_unsigned(a)
                       ELSE IF a < 100 THEN "00" \o fmt_unsigned(a)
                       ELSE IF a < 1000 THEN "0" \o fmt_unsigned(a)
                       ELSE fmt_unsigned(a)
         IN  (IF y < 0 THEN "-" ELSE "+") \o digits

\* The offset of an RFC 3339 timestamp: sign, hours, ':', minutes.
fmt_offset(off) ==
    LET a == IF off < 0 THEN 0 - off ELSE off
    IN  (IF off < 0 THEN "-" ELSE "+")
            \o pad2(a \div 3600) \o ":" \o pad2((a \div 60) % 60)

\* Faulty variant: the UTC date-time is written in place of the local one.
to_rfc3339_utc(date) ==
    LET civil == civil_from_days(date.utc.days)
    IN  fmt_year(civil.year) \o "-" \o pad2(civil.month) \o "-" \o pad2(civil.day)
            \o "T" \o pad2(date.utc.secs \div 3600) \o ":"
            \o pad2((date.utc.secs \div 60) % 60) \o ":"
            \o pad2(date.utc.secs % 60) \o fmt_offset(date.offset)

\* DateTime::to_rfc3339: the local date-time (UTC plus the offset), then the
\* offset.
to_rfc3339(date) ==
    LET local == add_seconds(date.utc, date.offset)
        civil == civil_from_days(local.days)
    IN  fmt_year(civil.year) \o "-" \o pad2(civil.month) \o "-" \o pad2(civil.day)
            \o "T" \o pad2(local.secs \div 3600) \o ":"
            \o pad2((local.secs \div 60) % 60) \o ":" \o pad2(local.secs % 60)
            \o fmt_offset(date.offset)

\* The constructor chosen at lib.rs 953-957.
offset_fn(timezone, secs) ==
    IF timezone >= 0 THEN east_opt(secs) ELSE west_opt(secs)

\* Whether `timezone.abs() * 3600` (lib.rs 960) overflows i32 arithmetic.
offset_secs_overflows(timezone) ==
    abs_overflows(timezone) \/ mul3600_overflows(wrapping_abs(timezone))

\* helpers::datetime where the arithmetic does not panic: the formatted
\* date-time, or "" when the fields are no date-time.
datetime_value(year, month, day, hour, min, sec, timezone) ==
    LET secs   == wrapping_mul3600(wrapping_abs(timezone))
        offset == unwrap_or_else(offset_fn(timezone, secs),
                                 unwrap_or_else(west_opt(0), 0))
        date   == with_ymd_and_hms(offset, year, month, day, hour, min, sec)
    IN  IF date # None THEN to_rfc3339(date[1]) ELSE ""

\* helpers::datetime: the outcomes a build can produce. An overflowing
\* `timezone.abs() * 3600` panics where overflow checks are on (a debug
\* build) and wraps where they are off (a release build).
datetime(year, month, day, hour, min, sec, timezone) ==
    LET returned ==
            [panic |-> FALSE,
             value |-> datetime_value(year, month, day, hour, min, sec, timezone)]
    IN  IF offset_secs_overflows(timezone)
        THEN {[panic |-> TRUE, value |-> ""], returned}
        ELSE {returned}

-----------------------------------------------------------------------------
(* The request: HashMap<String, String> as a function on its keys.         *)

EmptyMap == [k \in {} |-> ""]

\* HashMap::get
get(map, key) == IF key \in DOMAIN map THEN Some(map[key]) ELSE None

\* Faulty variant: a key that is present keeps its value.
insert_if_absent(map, key, value) ==
    [k \in DOMAIN map \cup {key} |-> IF k \in DOMAIN map THEN map[k] ELSE value]

\* HashMap::insert: the key holds the new value, whatever it held before.
insert(map, key, value) ==
    [k \in DOMAIN map \cup {key} |-> IF k = key THEN value ELSE map[k]]

\* The most parameters a request of the model holds at once.
MaxParams == 2

\* The longest collection handed to show_fields, query_fields, show_tags and
\* show_blocks when the encoders are explored on their own.
MaxLen == 2

\* The record of a call: its name, its arguments, what HashMap::insert
\* returned (the value it replaced) if the call inserted, and its outcome.
Call(op, args, replaced, out) ==
    [op |-> op, args |-> args, replaced |-> replaced, out |-> out]

\* The outcome of a builder method: it returned the builder, or it panicked.
Returned == [kind |-> "returned"]
Panicked == [kind |-> "panicked"]

\* A parameter-setting method: `self.request.insert(key, value); self`.
SetParam(op, args, key, value) ==
    /\ ~panicked
    /\ Cardinality(DOMAIN request \cup {key}) <= MaxParams
    /\ request' = insert(request, key, value)
    /\ last' = Call(op, args, Some(get(request, key)), Returned)
    /\ written' = [k \in DOMAIN written \cup {key} |->
                       IF k = key THEN value ELSE written[k]]
    /\ UNCHANGED <<endpoint, api_key, panicked, other>>

\* A method that returns the builder as it got it.
NoParam(op, args) ==
    /\ ~panicked
    /\ last' = Call(op, args, None, Returned)
    /\ UNCHANGED <<request, endpoint, api_key, panicked, written, other>>

\* A method that panics: the builder it took by value is dropped.
Panic(op, args) ==
    /\ ~panicked
    /\ panicked' = TRUE
    /\ last' = Call(op, args, None, Panicked)
    /\ UNCHANGED <<request, endpoint, api_key, written, other>>

-----------------------------------------------------------------------------
(* GuardianContentClient::build_request and the builder's methods.         *)

build_request ==
    /\ request' = EmptyMap
    /\ endpoint' = EndpointDefault
    /\ panicked' = FALSE
    /\ last' = Call("build_request", << >>, None, Returned)
    /\ written' = EmptyMap
    /\ UNCHANGED <<api_key, other>>

set_endpoint_as_param(e) ==
    /\ ~panicked
    /\ endpoint' = e
    /\ request' = insert(request, "endpoint", to_string(e))
    /\ last' = Call("endpoint", <<e>>, None, Returned)
    /\ UNCHANGED <<api_key, panicked, written, other>>

set_endpoint(e) ==
    /\ ~panicked
    /\ endpoint' = e
    /\ last' = Call("endpoint", <<e>>, None, Returned)
    /\ UNCHANGED <<request, api_key, panicked, written, other>>

\* The builder in use, as a value: the fields of GuardianRequestBuilder that
\* its methods read or write (http_client and base_url are only cloned).
Builder ==
    [request |-> request, endpoint |-> endpoint, api_key |-> api_key,
     panicked |-> panicked, written |-> written]

\* What build_request returns: a value of its own, with a new map.
NewBuilder(key) ==
    [request |-> EmptyMap, endpoint |-> EndpointDefault, api_key |-> key,
     panicked |-> FALSE, written |-> EmptyMap]

\* A second builder whose map is the first one's.
switch_sharing_request ==
    /\ request' = request
    /\ endpoint' = other.endpoint
    /\ api_key' = other.api_key
    /\ panicked' = other.panicked
    /\ written' = other.written
    /\ other' = Builder
    /\ last' = Call("switch", << >>, None, Returned)

\* The owner of the other builder runs next: the two builders are separate
\* values, each with its own fields, so the next call acts on the other one
\* as its owner left it.
switch ==
    /\ request' = other.request
    /\ endpoint' = other.endpoint
    /\ api_key' = other.api_key
    /\ panicked' = other.panicked
    /\ written' = other.written
    /\ other' = Builder
    /\ last' = Call("switch", << >>, None, Returned)

search(q) == SetParam("search", <<q>>, "q", q)

page(n) == SetParam("page", <<n>>, "page", fmt_int(n))

page_size(n) == SetParam("page_size", <<n>>, "page-size", fmt_int(n))

order_by(v) == SetParam("order_by", <<v>>, "order-by", to_string(v))

order_date_unencoded(v) == SetParam("order_date", <<v>>, "order-date", v)

order_date(v) == SetParam("order_date", <<v>>, "order-date", to_string(v))

show_fields(items) ==
    SetParam("show_fields", <<items>>, "show-fields", generate_sequence(items))

show_tags(items) ==
    SetParam("show_tags", <<items>>, "show-tags", generate_sequence(items))

query_fields(items) ==
    SetParam("query_fields", <<items>>, "query-fields", generate_sequence(items))

\* Faulty variant: month and day zero-padded to two digits.
fmt_date_padded(year, month, day) ==
    fmt_int(year) \o "-" \o pad2(month) \o "-" \o pad2(day)

\* format!("{year}-{month}-{day}")
fmt_date(year, month, day) ==
    fmt_int(year) \o "-" \o fmt_int(month) \o "-" \o fmt_int(day)

date_from(year, month, day) ==
    SetParam("date_from", <<year, month, day>>, "from-date",
             fmt_date(year, month, day))

date_to(year, month, day) ==
    SetParam("date_to", <<year, month, day>>, "to-date",
             fmt_date(year, month, day))

\* Faulty variant: the formatted value is inserted even when it is empty.
SetDatetime_always_inserts(op, key, a) ==
    \E formatted_datetime \in datetime(a[1], a[2], a[3], a[4], a[5], a[6], a[7]) :
        IF formatted_datetime.panic THEN Panic(op, a)
        ELSE SetParam(op, a, key, formatted_datetime.value)

\* Faulty variant: an empty formatted_datetime removes the entry.
SetDatetime_removes(op, key, a) ==
    \E formatted_datetime \in datetime(a[1], a[2], a[3], a[4], a[5], a[6], a[7]) :
        IF formatted_datetime.panic THEN Panic(op, a)
        ELSE IF formatted_datetime.value # ""
        THEN SetParam(op, a, key, formatted_datetime.value)
        ELSE /\ ~panicked
             /\ request' = [k \in DOMAIN request \ {key} |-> request[k]]
             /\ last' = Call(op, a, None, Returned)
             /\ UNCHANGED <<endpoint, api_key, panicked, written, other>>

\* datetime_from and datetime_to: insert only `if !formatted_datetime.is_empty()`.
SetDatetime(op, key, a) ==
    \E formatted_datetime \in datetime(a[1], a[2], a[3], a[4], a[5], a[6], a[7]) :
        IF formatted_datetime.panic THEN Panic(op, a)
        ELSE IF formatted_datetime.value # ""
        THEN SetParam(op, a, key, formatted_datetime.value)
        ELSE NoParam(op, a)

datetime_from(a) == SetDatetime("datetime_from", "from-date", a)

datetime_to(a) == SetDatetime("datetime_to", "to-date", a)

use_date(v) == SetParam("use_date", <<v>>, "use-date", to_string(v))

show_section(b) == SetParam("show_section", <<b>>, "show-section", fmt_bool(b))

section(s) == SetParam("section", <<s>>, "section", s)

reference_as_key(s) == SetParam("reference", <<s>>, s, s)

reference(s) == SetParam("reference", <<s>>, "reference", s)

reference_type(s) == SetParam("reference_type", <<s>>, "reference-type", s)

tag(s) == SetParam("tag", <<s>>, "tag", s)

ids(s) == SetParam("ids", <<s>>, "ids", s)

production_office(s) ==
    SetParam("production_office", <<s>>, "production-office", s)

lang(s) == SetParam("lang", <<s>>, "lang", s)

star_rating(n) == SetParam("star_rating", <<n>>, "star-rating", fmt_int(n))

tag_type(s) == SetParam("tag_type", <<s>>, "type", s)

show_blocks(items) ==
    SetParam("show_blocks", <<items>>, "show-blocks", generate_blocks(items))

-----------------------------------------------------------------------------
(* GuardianRequestBuilder::send (lib.rs 719-770; the blocking twin at      *)
(* 776-825 runs the same steps).                                           *)

\* error.rs: the variants send returns. Both a failed GET and a body that
\* does not decode arrive as a reqwest::Error, wrapped by `?` into ClientError.
MissingQueryParameter(name) == [variant |-> "MissingQueryParameter", of |-> name]
ClientError(e) == [variant |-> "ClientError", of |-> e]
ApiError(msg) == [variant |-> "ApiError", of |-> msg]

Ok(v) == [kind |-> "Ok", value |-> v]
Err(e) == [kind |-> "Err", value |-> e]

\* structs.rs: SearchResponse, every field an Option.
SearchResponse(status, total, results, message) ==
    [status |-> status, user_tier |-> None, total |-> total,
     start_index |-> None, page_size |-> None, current_page |-> None,
     pages |-> None, order_by |-> None, results |-> results,
     message |-> message]

\* Faulty variant: the fallback payload claims a status.
mock_response_ok ==
    [status |-> Some("ok"), user_tier |-> None, total |-> None,
     start_index |-> None, page_size |-> None, current_page |-> None,
     pages |-> None, order_by |-> None, results |-> None, message |-> None,
     content |-> None]

\* helpers::mock_response, field by field as lib.rs 971-983 writes it; it
\* names a field `content` that SearchResponse of structs.rs does not declare.
mock_response ==
    [status |-> None, user_tier |-> None, total |-> None,
     start_index |-> None, page_size |-> None, current_page |-> None,
     pages |-> None, order_by |-> None, results |-> None, message |-> None,
     content |-> None]

\* structs.rs: Response, the envelope.
Response(message, response) == [message |-> message, response |-> response]

\* http::HeaderValue::from_str: a header value is made of visible ASCII,
\* space, tab and the bytes above 127; any other control character, among
\* them the line feed, the carriage return and the form feed, is refused.
from_str(src) ==
    IF \E i \in 1..Len(src) : src[i] \in {"\n", "\r", "\f"}
    THEN Err("InvalidHeaderValue")
    ELSE Ok(src)

\* Faulty variant: the header is inserted for the empty key too.
send_headers_always(key) ==
    IF from_str(key).kind = "Err" THEN Err("unwrap")
    ELSE Ok([h \in {"api-key"} |-> from_str(key).value])

\* lib.rs 720-723: the api-key header, inserted when the key is not empty;
\* the `unwrap()` of a refused header value panics. A key is kept as the
\* sequence of its characters, which from_str looks at one by one.
send_headers(key) ==
    IF key # << >>
    THEN IF from_str(key).kind = "Err" THEN Err("unwrap")
         ELSE Ok([h \in {"api-key"} |-> from_str(key).value])
    ELSE Ok(EmptyMap)

\* Faulty variant: a SingleItem request without "q" goes out with an empty
\* path segment.
resolve_endpoint_or_default(ep, req) ==
    CASE ep = "Endpoint::Content" -> Ok("search")
      [] ep \in {"Endpoint::Tags", "Endpoint::Sections", "Endpoint::Editions"} ->
             Ok(to_string(ep))
      [] ep = "Endpoint::SingleItem" ->
             IF get(req, "q") = None THEN Ok("") ELSE Ok(get(req, "q")[1])

\* Faulty variant: Content is not special-cased and goes out under its own
\* token.
resolve_endpoint_own_token(ep, req) ==
    CASE ep = "Endpoint::Content" -> Ok(to_string(ep))
      [] ep = "Endpoint::Tags" -> Ok(to_string(ep))
      [] ep = "Endpoint::Sections" -> Ok(to_string(ep))
      [] ep = "Endpoint::Editions" -> Ok(to_string(ep))
      [] ep = "Endpoint::SingleItem" ->
             IF get(req, "q") = None THEN Err(MissingQueryParameter("q"))
             ELSE Ok(get(req, "q")[1])

\* Faulty variant: SingleItem goes out under its own token and "q" plays no
\* part in the path.
resolve_endpoint_item_token(ep, req) ==
    CASE ep = "Endpoint::Content" -> Ok("search")
      [] ep = "Endpoint::Tags" -> Ok(to_string(ep))
      [] ep = "Endpoint::Sections" -> Ok(to_string(ep))
      [] ep = "Endpoint::Editions" -> Ok(to_string(ep))
      [] ep = "Endpoint::SingleItem" -> Ok(to_string(ep))

\* lib.rs 725-735: the path segment of the endpoint.
resolve_endpoint(ep, req) ==
    CASE ep = "Endpoint::Content" -> Ok("search")
      [] ep = "Endpoint::Tags" -> Ok(to_string(ep))
      [] ep = "Endpoint::Sections" -> Ok(to_string(ep))
      [] ep = "Endpoint::Editions" -> Ok(to_string(ep))
      [] ep = "Endpoint::SingleItem" ->
             IF get(req, "q") = None THEN Err(MissingQueryParameter("q"))
             ELSE Ok(get(req, "q")[1])

\* Faulty variant: the payload's error is looked at before the top-level
\* message.
classify_payload_first(envelope) ==
    IF /\ envelope.response # None
       /\ envelope.response[1].status = Some("error")
       /\ envelope.response[1].message # None
    THEN [clear |-> FALSE,
          result |-> Err(ApiError(envelope.response[1].message[1]))]
    ELSE IF envelope.message # None
    THEN [clear |-> FALSE, result |-> Err(ApiError(envelope.message[1]))]
    ELSE [clear |-> TRUE,
          result |-> IF envelope.response # None THEN Ok(envelope.response[1])
                     ELSE Ok(mock_response)]

\* Faulty variant: the payload's status and message are never looked at.
classify_ignores_payload(envelope) ==
    IF envelope.message # None
    THEN [clear |-> FALSE, result |-> Err(ApiError(envelope.message[1]))]
    ELSE [clear |-> TRUE,
          result |-> IF envelope.response # None THEN Ok(envelope.response[1])
                     ELSE Ok(mock_response)]

\* Faulty variant: any internal message is an error, whatever the status.
classify_any_message(envelope) ==
    IF envelope.message # None
    THEN [clear |-> FALSE, result |-> Err(ApiError(envelope.message[1]))]
    ELSE IF /\ envelope.response # None
            /\ envelope.response[1].message # None
    THEN [clear |-> FALSE,
          result |-> Err(ApiError(envelope.response[1].message[1]))]
    ELSE [clear |-> TRUE,
          result |-> IF envelope.response # None THEN Ok(envelope.response[1])
                     ELSE Ok(mock_response)]

\* Faulty variant: a payload with status "error" is an error with or without
\* a message of its own.
classify_status_alone(envelope) ==
    IF envelope.message # None
    THEN [clear |-> FALSE, result |-> Err(ApiError(envelope.message[1]))]
    ELSE IF /\ envelope.response # None
            /\ envelope.response[1].status = Some("error")
    THEN [clear |-> FALSE,
          result |-> Err(ApiError(IF envelope.response[1].message # None
                                  THEN envelope.response[1].message[1]
                                  ELSE ""))]
    ELSE [clear |-> TRUE,
          result |-> IF envelope.response # None THEN Ok(envelope.response[1])
                     ELSE Ok(mock_response)]

\* Faulty variant: `self.request.clear()` is left out.
classify_keeps_request(envelope) ==
    IF envelope.message # None
    THEN [clear |-> FALSE, result |-> Err(ApiError(envelope.message[1]))]
    ELSE IF /\ envelope.response # None
            /\ envelope.response[1].status = Some("error")
            /\ envelope.response[1].message # None
    THEN [clear |-> FALSE,
          result |-> Err(ApiError(envelope.response[1].message[1]))]
    ELSE [clear |-> FALSE,
          result |-> IF envelope.response # None THEN Ok(envelope.response[1])
                     ELSE Ok(mock_response)]

\* lib.rs 752-770: what send makes of the decoded envelope, and whether it
\* reaches `self.request.clear()`.
classify(envelope) ==
    IF envelope.message # None
    THEN [clear |-> FALSE, result |-> Err(ApiError(envelope.message[1]))]
    ELSE IF /\ envelope.response # None
            /\ envelope.response[1].status = Some("error")
            /\ envelope.response[1].message # None
    THEN [clear |-> FALSE,
          result |-> Err(ApiError(envelope.response[1].message[1]))]
    ELSE [clear |-> TRUE,
          result |-> IF envelope.response # None THEN Ok(envelope.response[1])
                     ELSE Ok(mock_response)]

\* Faulty variant: "q" is taken for the path segment only and left out of
\* the query.
queries_without_q(req) == {<<k, req[k]>> : k \in DOMAIN req \ {"q"}}

\* lib.rs 737: `Vec::from_iter(self.request.iter())`, the (key, value) pairs
\* of the map, each entry once, in no particular order.
queries(req) == {<<k, req[k]>> : k \in DOMAIN req}

\* Faulty variant: a transport failure is tried a second time.
fetch_retry(wire, reply) ==
    CASE reply.kind = "transport_error" ->
             [gets |-> <<wire, wire>>, result |-> Err(ClientError("transport"))]
      [] reply.kind = "decode_error" ->
             [gets |-> <<wire>>, result |-> Err(ClientError("decode"))]
      [] reply.kind = "body" -> [gets |-> <<wire>>, result |-> Ok(reply.envelope)]

fetch_decode_as_api(wire, reply) ==
    CASE reply.kind = "transport_error" ->
             [gets |-> <<wire>>, result |-> Err(ClientError("transport"))]
      [] reply.kind = "decode_error" ->
             [gets |-> <<wire>>, result |-> Err(ApiError("decode"))]
      [] reply.kind = "body" -> [gets |-> <<wire>>, result |-> Ok(reply.envelope)]

\* lib.rs 742-750: the GET and the decoding of its body. `wire` is the
\* request handed to the HTTP client, `reply` what the network and the JSON
\* decoder make of it; `gets` lists the GETs issued.
fetch(wire, reply) ==
    CASE reply.kind = "transport_error" ->
             [gets |-> <<wire>>, result |-> Err(ClientError("transport"))]
      [] reply.kind = "decode_error" ->
             [gets |-> <<wire>>, result |-> Err(ClientError("decode"))]
      [] reply.kind = "body" -> [gets |-> <<wire>>, result |-> Ok(reply.envelope)]

\* The outcome of send: its result, the number of GETs it issued and the
\* last of them.
Sent(result, gets, wire) ==
    [kind |-> "sent", result |-> result, gets |-> gets, wire |-> wire]

\* Faulty variant: a successful send puts the endpoint back to its default.
send_resets_endpoint(reply) ==
    /\ ~panicked
    /\ LET headers == send_headers(api_key)
           path    == resolve_endpoint(endpoint, request)
       IN  IF headers.kind = "Err"
           THEN /\ panicked' = TRUE
                /\ last' = Call("send", << >>, None, Panicked)
                /\ UNCHANGED <<request, written>>
           ELSE IF path.kind = "Err"
           THEN /\ last' = Call("send", << >>, None, Sent(path, 0, None))
                /\ UNCHANGED <<request, written, panicked>>
           ELSE LET wire    == [path |-> path.value,
                                query |-> queries(request),
                                headers |-> headers.value]
                    fetched == fetch(wire, reply)
                    decoded == fetched.result
                    gets    == fetched.gets
                IN  IF decoded.kind = "Err"
                    THEN /\ last' = Call("send", <<reply>>, None,
                                         Sent(decoded, Len(gets),
                                              Some(gets[Len(gets)])))
                         /\ UNCHANGED <<request, written, panicked>>
                    ELSE LET c == classify(decoded.value)
                         IN  /\ request' = IF c.clear THEN EmptyMap ELSE request
                             /\ written' = IF c.result.kind = "Ok"
                                            THEN EmptyMap ELSE written
                             /\ last' = Call("send", <<reply>>, None,
                                             Sent(c.result, Len(gets),
                                                  Some(gets[Len(gets)])))
                             /\ UNCHANGED panicked
    /\ endpoint' = IF last'.out.kind = "sent" /\ last'.out.result.kind = "Ok"
                   THEN EndpointDefault ELSE endpoint
    /\ UNCHANGED <<api_key, other>>

send(reply) ==
    /\ ~panicked
    /\ LET headers == send_headers(api_key)
           path    == resolve_endpoint(endpoint, request)
       IN  IF headers.kind = "Err"
           THEN /\ panicked' = TRUE
                /\ last' = Call("send", << >>, None, Panicked)
                /\ UNCHANGED <<request, written>>
           ELSE IF path.kind = "Err"
           THEN /\ last' = Call("send", << >>, None, Sent(path, 0, None))
                /\ UNCHANGED <<request, written, panicked>>
           ELSE LET wire    == [path |-> path.value,
                                query |-> queries(request),
                                headers |-> headers.value]
                    fetched == fetch(wire, reply)
                    decoded == fetched.result
                    gets    == fetched.gets
                IN  IF decoded.kind = "Err"
                    THEN /\ last' = Call("send", <<reply>>, None,
                                         Sent(decoded, Len(gets),
                                              Some(gets[Len(gets)])))
                         /\ UNCHANGED <<request, written, panicked>>
                    ELSE LET c == classify(decoded.value)
                         IN  /\ request' = IF c.clear THEN EmptyMap ELSE request
                             /\ written' = IF c.result.kind = "Ok"
                                            THEN EmptyMap ELSE written
                             /\ last' = Call("send", <<reply>>, None,
                                             Sent(c.result, Len(gets),
                                                  Some(gets[Len(gets)])))
                             /\ UNCHANGED panicked
    /\ UNCHANGED <<endpoint, api_key, other>>

-----------------------------------------------------------------------------
(* The inputs the calls are explored with.                                 *)

\* All sequences over S of length at most n.
SeqsUpTo(S, n) == UNION {[1..k -> S] : k \in 0..n}

\* "test-api-key" (tests.rs 12), the empty key, and a key read with its
\* line feed.
TestApiKey == <<"t", "e", "s", "t", "-", "a", "p", "i", "-", "k", "e", "y">>
ApiKeys == {<< >>, TestApiKey}
SomeApiKeys == {TestApiKey}
AnyApiKeys == ApiKeys \cup {<<"k", "e", "y", "\n">>}

Queries == {"politics", "books/2022/jan/01/2022-in-books"}
Pages == {10}
PageSizes == {20}
StarRatings == {3}
Sections == {"food"}
References == {"isbn"}
ReferenceTypes == {"isbn/123456789012"}
Tags == {"technology/apple"}
Ids == {"world/2022/jan/01/funeral"}
ProductionOffices == {"aus"}
Langs == {"fr"}
TagTypes == {"tv-and-radio/us-television"}

Unit(t) == [tag |-> t]
BodyLatestWith(n) == [tag |-> "Block::BodyLatestWith", n |-> n]
BodyOldestWith(n) == [tag |-> "Block::BodyOldestWith", n |-> n]
BodyBlockId(id) == [tag |-> "Block::BodyBlockId", id |-> id]
BodyAroundBlockId(id) == [tag |-> "Block::BodyAroundBlockId", id |-> id]
BodyAroundBlockIdWith(id, n) ==
    [tag |-> "Block::BodyAroundBlockIdWith", id |-> id, n |-> n]
BodyPublishedSince(n) == [tag |-> "Block::BodyPublishedSince", n |-> n]

BlockIds == {"123456789", "abc"}
BlockCounts == {-1, 10}
BlockTimes == {0, 123456}

\* Values of enums::Block.
Blocks ==
    {Unit(t) : t \in BlockUnitTags}
        \cup {BodyLatestWith(n) : n \in BlockCounts}
        \cup {BodyOldestWith(n) : n \in BlockCounts}
        \cup {BodyBlockId(id) : id \in BlockIds}
        \cup {BodyAroundBlockId(id) : id \in BlockIds}
        \cup {BodyAroundBlockIdWith(id, n) : id \in BlockIds, n \in BlockCounts}
        \cup {BodyPublishedSince(n) : n \in BlockTimes}

\* The collections the whole builder is explored with.
SomeFieldLists ==
    {<<"Field::ShortUrl", "Field::Byline">>, <<"Field::ShortUrl", "Field::All">>}
SomeTagLists == {<<"Tag::Blog", "Tag::Contributor">>}
SomeBlockLists ==
    {<<BodyPublishedSince(123456), Unit("Block::BodyKeyEvents")>>}
SomeOrderBy == {"OrderBy::Oldest", "OrderBy::Newest"}
SomeOrderDate == {"OrderDate::NewspaperEdition"}
SomeUseDate == {"UseDate::FirstPublication"}
SomeBool == {TRUE}
SomeDates == {<<2020, 1, 1>>}
SomeDatetimes ==
    {<<2021, 12, 31, 0, 0, 0, 5>>, <<2021, 13, 40, 0, 999, 0, 5>>,
     <<2021, 13, 40, 0, 999, 0, I32_MAX>>}

\* The collections and dates the encoders are explored with on their own.
FieldLists == SeqsUpTo(Field, MaxLen)
TagLists == SeqsUpTo(Tag, MaxLen)
BlockLists == SeqsUpTo(Blocks, MaxLen)

Years == {800, 2021, 2024}
Months == {2, 12, 13}
Days == {29, 31, 40}
Hours == {0, 23, 24}
Minutes == {0, 30, 999}
Seconds == {0, 59}
DateYears == {-44, 800, 2021}
DateMonths == {1, 12, 13}
DateDays == {1, 31, 40}

\* Hour offsets: the valid ones, the ones FixedOffset refuses, and the ones
\* whose seconds do not fit an i32.
Timezones ==
    {-23, -5, -1, 0, 1, 5, 23,
     -1024, -25, -24, 24, 999, 596523,
     I32_MIN, -268435457, -596524, 596524, 268435457, I32_MAX}

Dates == DateYears \X DateMonths \X DateDays
Datetimes == Years \X Months \X Days \X Hours \X Minutes \X Seconds \X Timezones

\* What the network and the decoder may answer.
OkPayload ==
    SearchResponse(Some("ok"), Some(1), Some(<<"world/2022/jan/01/funeral">>), None)
NotePayload == SearchResponse(Some("ok"), Some(0), Some(<< >>), Some("no results"))
ErrorPayload == SearchResponse(Some("error"), None, None, Some("bad request"))
SilentErrorPayload == SearchResponse(Some("error"), None, None, None)

Envelopes ==
    {Response(None, None), Response(None, Some(OkPayload)),
     Response(None, Some(NotePayload)), Response(None, Some(ErrorPayload)),
     Response(None, Some(SilentErrorPayload)),
     Response(Some("Unauthorized"), None),
     Response(Some("Unauthorized"), Some(OkPayload)),
     Response(Some("Unauthorized"), Some(ErrorPayload))}

Replies ==
    {[kind |-> "transport_error"], [kind |-> "decode_error"]}
        \cup {[kind |-> "body", envelope |-> e] : e \in Envelopes}

SomeReplies ==
    {[kind |-> "transport_error"],
     [kind |-> "body", envelope |-> Response(None, Some(OkPayload))],
     [kind |-> "body", envelope |-> Response(Some("Unauthorized"), None)]}

-----------------------------------------------------------------------------
(* The specifications.                                                     *)

\* GuardianContentClient::new, then build_request.
\* GuardianContentClient::new(api_key) followed by build_request().
Built(keys) ==
    /\ api_key \in keys
    /\ request = EmptyMap
    /\ endpoint = EndpointDefault
    /\ panicked = FALSE
    /\ last = Call("build_request", << >>, None, Returned)
    /\ written = EmptyMap
    /\ other = NewBuilder(api_key)

Init == Built(SomeApiKeys)

\* The whole builder and the dispatcher.
Next ==
    \/ build_request
    \/ \E e \in Endpoint : set_endpoint(e)
    \/ \E q \in Queries : search(q)
    \/ \E n \in Pages : page(n)
    \/ \E n \in PageSizes : page_size(n)
    \/ \E v \in SomeOrderBy : order_by(v)
    \/ \E v \in SomeOrderDate : order_date(v)
    \/ \E items \in SomeFieldLists : show_fields(items)
    \/ \E items \in SomeTagLists : show_tags(items)
    \/ \E items \in {<<"Field::ProductionOffice">>} : query_fields(items)
    \/ \E d \in SomeDates : date_from(d[1], d[2], d[3])
    \/ \E a \in SomeDatetimes : datetime_from(a)
    \/ \E d \in SomeDates : date_to(d[1], d[2], d[3])
    \/ \E a \in SomeDatetimes : datetime_to(a)
    \/ \E v \in SomeUseDate : use_date(v)
    \/ \E b \in SomeBool : show_section(b)
    \/ \E s \in Sections : section(s)
    \/ \E s \in References : reference(s)
    \/ \E s \in ReferenceTypes : reference_type(s)
    \/ \E s \in Tags : tag(s)
    \/ \E s \in Ids : ids(s)
    \/ \E s \in ProductionOffices : production_office(s)
    \/ \E s \in Langs : lang(s)
    \/ \E n \in StarRatings : star_rating(n)
    \/ \E s \in TagTypes : tag_type(s)
    \/ \E items \in SomeBlockLists : show_blocks(items)
    \/ \E reply \in SomeReplies : send(reply)

Spec == Init /\ [][Next]_vars

\* The dispatcher: send under every endpoint, key and reply, on requests
\* made with a few of the setters.
InitDispatch == Built(ApiKeys)

NextDispatch ==
    \/ build_request
    \/ \E e \in Endpoint : set_endpoint(e)
    \/ \E q \in Queries : search(q)
    \/ \E n \in Pages : page(n)
    \/ \E v \in SomeOrderBy : order_by(v)
    \/ \E items \in SomeFieldLists : show_fields(items)
    \/ \E s \in Langs : lang(s)
    \/ \E d \in SomeDates : date_from(d[1], d[2], d[3])
    \/ \E a \in SomeDatetimes : datetime_from(a)
    \/ \E reply \in Replies : send(reply)

SpecDispatch == InitDispatch /\ [][NextDispatch]_vars

\* The client's key: send under any key, legal as a header value or not.
InitKeys == Built(AnyApiKeys)

NextKeys ==
    \/ build_request
    \/ \E e \in Endpoint : set_endpoint(e)
    \/ \E q \in Queries : search(q)
    \/ \E n \in Pages : page(n)
    \/ \E reply \in Replies : send(reply)

SpecKeys == InitKeys /\ [][NextKeys]_vars

\* Two builders from one client, their owners' calls interleaved.
NextPair ==
    \/ build_request
    \/ \E e \in Endpoint : set_endpoint(e)
    \/ \E q \in Queries : search(q)
    \/ \E n \in Pages : page(n)
    \/ \E reply \in SomeReplies : send(reply)
    \/ switch

SpecPair == Init /\ [][NextPair]_vars

\* The encoders on their own: one call on a builder just built, over every
\* collection up to MaxLen and every date of the input sets.
Fresh == DOMAIN request = {} /\ last.op = "build_request"

NextEncode ==
    \/ build_request
    \/ Fresh /\ \E items \in FieldLists : show_fields(items)
    \/ Fresh /\ \E items \in TagLists : show_tags(items)
    \/ Fresh /\ \E items \in FieldLists : query_fields(items)
    \/ Fresh /\ \E items \in BlockLists : show_blocks(items)
    \/ Fresh /\ \E d \in Dates : date_from(d[1], d[2], d[3])
    \/ Fresh /\ \E d \in Dates : date_to(d[1], d[2], d[3])
    \/ Fresh /\ \E a \in Datetimes : datetime_from(a)
    \/ Fresh /\ \E a \in Datetimes : datetime_to(a)
    \/ Fresh /\ \E v \in OrderBy : order_by(v)
    \/ Fresh /\ \E v \in OrderDate : order_date(v)
    \/ Fresh /\ \E v \in UseDate : use_date(v)

SpecEncode == Init /\ [][NextEncode]_vars

-----------------------------------------------------------------------------
(* Properties. What a property expects of a stored value is written here   *)
(* on its own terms (TLC's ToString for decimal numbers, a right-to-left   *)
(* comma join), not with the operators the builder computes it with.       *)

\* The wire key a parameter-setting method writes.
WireKey(op) ==
    CASE op = "search" -> "q"
      [] op = "page" -> "page"
      [] op = "page_size" -> "page-size"
      [] op = "order_by" -> "order-by"
      [] op = "order_date" -> "order-date"
      [] op = "show_fields" -> "show-fields"
      [] op = "show_tags" -> "show-tags"
      [] op = "query_fields" -> "query-fields"
      [] op = "date_from" -> "from-date"
      [] op = "datetime_from" -> "from-date"
      [] op = "date_to" -> "to-date"
      [] op = "datetime_to" -> "to-date"
      [] op = "use_date" -> "use-date"
      [] op = "show_section" -> "show-section"
      [] op = "section" -> "section"
      [] op = "reference" -> "reference"
      [] op = "reference_type" -> "reference-type"
      [] op = "tag" -> "tag"
      [] op = "ids" -> "ids"
      [] op = "production_office" -> "production-office"
      [] op = "lang" -> "lang"
      [] op = "star_rating" -> "star-rating"
      [] op = "tag_type" -> "type"
      [] op = "show_blocks" -> "show-blocks"

SequenceOps == {"show_fields", "query_fields", "show_tags"}
DatetimeOps == {"datetime_from", "datetime_to"}
DateOps == {"date_from", "date_to"}

\* The value stored under key, or a value no call stores when it is absent.
Stored(key) == IF key \in DOMAIN request THEN request[key] ELSE "<absent>"

HasAll(items) == \E i \in 1..Len(items) : items[i] \in {"Field::All", "Tag::All"}

\* Strings joined by single commas, built from the right.
RECURSIVE CommaJoined(_)
CommaJoined(strings) ==
    IF Len(strings) = 0 THEN ""
    ELSE IF Len(strings) = 1 THEN strings[1]
    ELSE CommaJoined(SubSeq(strings, 1, Len(strings) - 1))
             \o "," \o strings[Len(strings)]

\* C1: show_fields, query_fields and show_tags store exactly "all" whenever
\* the collection holds All, at any place and among any other members.
C1_AllSuppressesMembers ==
    (last.op \in SequenceOps /\ HasAll(last.args[1]))
        => Stored(WireKey(last.op)) = "all"

C1_Witness ==
    /\ last.op = "show_tags"
    /\ last.args[1] = <<"Tag::Blog", "Tag::All">>
    /\ Stored("show-tags") = "all"

\* C2: without All, show_fields, query_fields and show_tags store the
\* members' tokens joined by single commas, in input order, duplicates
\* kept, no comma before or after; the empty collection stores "".
C2_CommaJoinedInOrder ==
    (last.op \in SequenceOps /\ ~HasAll(last.args[1]))
        => LET items == last.args[1]
           IN  /\ WireKey(last.op) \in DOMAIN request
               /\ request[WireKey(last.op)]
                      = CommaJoined([i \in 1..Len(items) |-> to_string(items[i])])
               /\ (Len(items) = 0 => request[WireKey(last.op)] = "")

C2_Witness ==
    /\ last.op = "show_fields"
    /\ last.args[1] = <<"Field::ShortUrl", "Field::ShortUrl">>
    /\ Stored("show-fields") = "shortUrl,shortUrl"

\* C3: show_blocks stores exactly "all" when the collection holds Block::All
\* at any place; otherwise each member is encoded on its own and the
\* encodings are comma-joined in input order.
C3_BlocksAllOrJoined ==
    last.op = "show_blocks"
        => LET items == last.args[1]
           IN  IF \E i \in 1..Len(items) : items[i].tag = "Block::All"
               THEN Stored("show-blocks") = "all"
               ELSE Stored("show-blocks")
                        = CommaJoined([i \in 1..Len(items) |->
                                           generate_blocks(<<items[i]>>)])

C3_Witness ==
    /\ last.op = "show_blocks"
    /\ last.args[1] = <<Unit("Block::Main"), Unit("Block::All")>>
    /\ Stored("show-blocks") = "all"

\* The documented encoding of a single block selector.
BlockTable(b) ==
    CASE b.tag = "Block::Main" -> "main"
      [] b.tag = "Block::Body" -> "body"
      [] b.tag = "Block::BodyLatest" -> "body:latest"
      [] b.tag = "Block::BodyLatestWith" -> "body:latest:" \o ToString(b.n)
      [] b.tag = "Block::BodyOldest" -> "body:latest"
      [] b.tag = "Block::BodyOldestWith" -> "body:oldest:" \o ToString(b.n)
      [] b.tag = "Block::BodyBlockId" -> "body:" \o b.id
      [] b.tag = "Block::BodyAroundBlockId" -> "body:around:" \o b.id
      [] b.tag = "Block::BodyAroundBlockIdWith" ->
             "body:around:" \o b.id \o ":" \o ToString(b.n)
      [] b.tag = "Block::BodyKeyEvents" -> "body:key-events"
      [] b.tag = "Block::BodyPublishedSince" ->
             "body:published-since:" \o ToString(b.n)

\* C4: a single block selector is stored as the documented table encodes it.
C4_BlockTable ==
    (/\ last.op = "show_blocks"
     /\ Len(last.args[1]) = 1
     /\ last.args[1][1].tag # "Block::All")
        => Stored("show-blocks") = BlockTable(last.args[1][1])

C4_Witness ==
    /\ last.op = "show_blocks"
    /\ last.args[1] = <<Unit("Block::BodyOldest")>>
    /\ Stored("show-blocks") = "body:latest"

\* Whether the seven arguments of datetime_from / datetime_to denote a
\* date-time of the calendar.
IsDateTime(a) ==
    LET leap == (a[1] % 4 = 0 /\ a[1] % 100 # 0) \/ a[1] % 400 = 0
        len  == IF a[2] = 2 THEN (IF leap THEN 29 ELSE 28)
                ELSE IF a[2] \in {4, 6, 9, 11} THEN 30 ELSE 31
    IN  /\ a[2] \in 1..12
        /\ a[3] \in 1..len
        /\ a[4] \in 0..23
        /\ a[5] \in 0..59
        /\ a[6] \in 0..59

\* Decimal digits, zero-padded on the left to two and to four places.
TwoDigits(n) == IF n < 10 THEN "0" \o ToString(n) ELSE ToString(n)
FourDigits(n) ==
    IF n < 10 THEN "000" \o ToString(n)
    ELSE IF n < 100 THEN "00" \o ToString(n)
    ELSE IF n < 1000 THEN "0" \o ToString(n)
    ELSE ToString(n)

\* "YYYY-MM-DDTHH:MM:SS" of the arguments as given.
WallClock(a) ==
    FourDigits(a[1]) \o "-" \o TwoDigits(a[2]) \o "-" \o TwoDigits(a[3])
        \o "T" \o TwoDigits(a[4]) \o ":" \o TwoDigits(a[5]) \o ":" \o TwoDigits(a[6])

\* "+hh:00" east of Greenwich and at it, "-hh:00" west of it.
HourOffset(h) ==
    IF h >= 0 THEN "+" \o TwoDigits(h) \o ":00"
    ELSE "-" \o TwoDigits(0 - h) \o ":00"

\* What a parameter-setting call writes under its key.
Written(call) ==
    LET op == call.op
        a  == call.args
    IN  CASE op \in {"search", "section", "reference", "reference_type", "tag",
                     "ids", "production_office", "lang", "tag_type"} -> a[1]
          [] op \in {"page", "page_size", "star_rating"} -> ToString(a[1])
          [] op \in {"order_by", "order_date", "use_date"} -> to_string(a[1])
          [] op = "show_section" -> IF a[1] THEN "true" ELSE "false"
          [] op \in SequenceOps -> generate_sequence(a[1])
          [] op = "show_blocks" -> generate_blocks(a[1])
          [] op \in DateOps ->
                 ToString(a[1]) \o "-" \o ToString(a[2]) \o "-" \o ToString(a[3])
          [] op \in DatetimeOps ->
                 datetime_value(a[1], a[2], a[3], a[4], a[5], a[6], a[7])

\* C5: keys are unique and the last write wins: a call that sets a key leaves
\* under it exactly the value it wrote, whatever the key held before, and
\* leaves every other key with the value it had.
C5_LastWriteWins ==
    [][last'.replaced # None
           => LET key == WireKey(last'.op)
              IN  /\ DOMAIN request' = DOMAIN request \cup {key}
                  /\ request'[key] = Written(last')
                  /\ \A k \in DOMAIN request \ {key} : request'[k] = request[k]]_vars

C5_Witness ==
    /\ last.op = "order_by"
    /\ last.args = <<"OrderBy::Newest">>
    /\ last.replaced = Some(Some("oldest"))
    /\ Stored("order-by") = "newest"
    /\ Cardinality(DOMAIN request) = 2

\* C6 as stated: after datetime_from (datetime_to) with arguments that are no
\* date-time, from-date (to-date) is absent from the request.
C6_AbsentAfterInvalid ==
    (last.op \in DatetimeOps /\ ~IsDateTime(last.args))
        => WireKey(last.op) \notin DOMAIN request

\* C6, amended: datetime_from (datetime_to) with arguments that are no
\* date-time does not touch the request: from-date (to-date) is absent after
\* the call if it was absent before, and keeps the value it had otherwise.
C6_InvalidLeavesRequest ==
    [][(last'.op \in DatetimeOps /\ ~IsDateTime(last'.args))
           => (request' = request /\ last'.replaced = None)]_vars

C6_Witness ==
    /\ last.op = "datetime_from"
    /\ last.args = <<2021, 13, 40, 0, 999, 0, 5>>
    /\ last.out = Returned
    /\ Stored("from-date") = "2020-1-1"

\* C7: for every hour offset of magnitude 24 and more, up to the ends of the
\* i32 range, datetime_from / datetime_to do not fail, and for a date-time of
\* the calendar they store the wall-clock time with the offset "+00:00".
C7_OutOfRangeOffsetIsUtc ==
    (last.op \in DatetimeOps /\ (last.args[7] > 23 \/ last.args[7] < -23))
        => /\ last.out = Returned
           /\ IsDateTime(last.args)
                  => Stored(WireKey(last.op)) = WallClock(last.args) \o "+00:00"

\* C8: for a date-time of the calendar and an hour offset h, |h| <= 23,
\* datetime_from / datetime_to store "YYYY-MM-DDTHH:MM:SS" of the arguments
\* followed by "+hh:00" (h >= 0) or "-hh:00" (h < 0).
C8_Rfc3339WithOffset ==
    (/\ last.op \in DatetimeOps
     /\ IsDateTime(last.args)
     /\ last.args[7] \in -23..23)
        => /\ last.out = Returned
           /\ Stored(WireKey(last.op))
                  = WallClock(last.args) \o HourOffset(last.args[7])

C8_Witness ==
    /\ last.op = "datetime_to"
    /\ last.args = <<2024, 2, 29, 23, 30, 59, -5>>
    /\ Stored("to-date") = "2024-02-29T23:30:59-05:00"

\* C9: date_from / date_to always store "{y}-{m}-{d}" in plain decimal, with
\* no padding and no calendar check.
C9_PlainDate ==
    last.op \in DateOps
        => Stored(WireKey(last.op))
               = ToString(last.args[1]) \o "-" \o ToString(last.args[2])
                     \o "-" \o ToString(last.args[3])

C9_Witness ==
    /\ last.op = "date_from"
    /\ last.args = <<2021, 13, 1>>
    /\ Stored("from-date") = "2021-13-1"

Dispatched == last.op = "send" /\ last.out.kind = "sent" /\ last.out.gets > 0
Decoded == Dispatched /\ last.args[1].kind = "body"
Envelope == last.args[1].envelope

\* The path segments of the endpoints.
PathSegment(ep, req) ==
    CASE ep = "Endpoint::Content" -> "search"
      [] ep = "Endpoint::Tags" -> "tags"
      [] ep = "Endpoint::Sections" -> "sections"
      [] ep = "Endpoint::Editions" -> "editions"
      [] ep = "Endpoint::SingleItem" -> req["q"]

\* C11: the path segment send requests is "search" for Content, "tags",
\* "sections", "editions" for Tags, Sections, Editions, and for SingleItem
\* the value stored under "q" when send is called.
C11_PathSegment ==
    [][(last'.op = "send" /\ last'.out.gets > 0)
           => last'.out.wire[1].path = PathSegment(endpoint, request)]_vars

C11_Witness ==
    /\ Dispatched
    /\ endpoint = "Endpoint::SingleItem"
    /\ last.out.wire[1].path = "books/2022/jan/01/2022-in-books"

\* C12: when the decoded envelope has a top-level message, send fails with
\* ApiError carrying that message, with or without a payload and whatever the
\* payload holds.
C12_TopLevelMessage ==
    (Decoded /\ Envelope.message # None)
        => last.out.result = Err(ApiError(Envelope.message[1]))

C12_Witness ==
    /\ Decoded
    /\ Envelope.message = Some("Unauthorized")
    /\ Envelope.response # None
    /\ Envelope.response[1].message = Some("bad request")
    /\ last.out.result = Err(ApiError("Unauthorized"))

\* C13: with no top-level message and a payload whose status is "error" and
\* whose message is present, send fails with ApiError carrying the payload's
\* message.
C13_InternalError ==
    (/\ Decoded
     /\ Envelope.message = None
     /\ Envelope.response # None
     /\ Envelope.response[1].status = Some("error")
     /\ Envelope.response[1].message # None)
        => last.out.result = Err(ApiError(Envelope.response[1].message[1]))

C13_Witness ==
    /\ Decoded
    /\ Envelope.message = None
    /\ Envelope.response # None
    /\ Envelope.response[1].status = Some("error")
    /\ last.out.result = Err(ApiError("bad request"))

\* C14: with no top-level message and a payload that is not a status "error"
\* with a message, send returns Ok with exactly the decoded payload.
C14_PayloadReturned ==
    (/\ Decoded
     /\ Envelope.message = None
     /\ Envelope.response # None
     /\ ~(/\ Envelope.response[1].status = Some("error")
          /\ Envelope.response[1].message # None))
        => last.out.result = Ok(Envelope.response[1])

C14_Witness ==
    /\ Decoded
    /\ Envelope.message = None
    /\ Envelope.response # None
    /\ Envelope.response[1].status = Some("ok")
    /\ Envelope.response[1].message = Some("no results")
    /\ last.out.result.kind = "Ok"
    /\ last.out.result.value.results = Some(<< >>)

\* C15: with neither a top-level message nor a payload, send returns Ok with
\* a payload whose fields (status, the pagination counters, results, message
\* and the others) are all absent.
C15_EmptyPayload ==
    (Decoded /\ Envelope.message = None /\ Envelope.response = None)
        => /\ last.out.result.kind = "Ok"
           /\ {"status", "total", "start_index", "page_size", "current_page",
               "pages", "results", "message"}
                  \subseteq DOMAIN last.out.result.value
           /\ \A f \in DOMAIN last.out.result.value :
                  last.out.result.value[f] = None

C15_Witness ==
    /\ Decoded
    /\ Envelope = Response(None, None)
    /\ last.out.result.kind = "Ok"
    /\ last.out.result.value.status = None

\* C16: after a send that returns Ok the request is empty, and what a send
\* puts on the wire is made only of parameters written since the builder was
\* built or last returned Ok from send.
C16_FreshAfterSuccess ==
    [][(last'.op = "send" /\ last'.out.gets > 0)
           => /\ last'.out.result.kind = "Ok" => DOMAIN request' = {}
              /\ \A p \in last'.out.wire[1].query :
                     p[1] \in DOMAIN written /\ written[p[1]] = p[2]]_vars

C16_Witness ==
    /\ Dispatched
    /\ last.out.result.kind = "Ok"
    /\ last.out.wire[1].query = {<<"page", "10">>, <<"q", "politics">>}
    /\ DOMAIN request = {}

\* C17 as stated: after any send that reached the network, whether it
\* returned Ok, an ApiError or a transport or decoding failure, the request
\* is empty.
C17_ClearedOnAnyOutcome == Dispatched => DOMAIN request = {}

\* C18: a send issues one GET, or none when it fails with
\* MissingQueryParameter; a failure of the transport, of the decoding or of
\* the API is not tried again.
C18_OneGet ==
    last.op = "send"
        => last.out.gets
               = IF last.out.result = Err(MissingQueryParameter("q")) THEN 0 ELSE 1

C18_Witness ==
    /\ Dispatched
    /\ last.args[1].kind = "transport_error"
    /\ last.out.result.kind = "Err"
    /\ last.out.gets = 1

\* C19: the query parameters send puts on the wire are the entries of the
\* request at the call, each once and nothing else, "q" included when the
\* endpoint is SingleItem.
C19_QueryIsRequest ==
    [][(last'.op = "send" /\ last'.out.gets > 0)
           => LET query == last'.out.wire[1].query
              IN  /\ \A k \in DOMAIN request : <<k, request[k]>> \in query
                  /\ \A p \in query : p[1] \in DOMAIN request
                  /\ Cardinality(query) = Cardinality(DOMAIN request)]_vars

C19_Witness ==
    /\ Dispatched
    /\ endpoint = "Endpoint::SingleItem"
    /\ last.out.wire[1].path = "politics"
    /\ last.out.wire[1].query = {<<"q", "politics">>, <<"lang", "fr">>}

\* What send would put on the wire for an endpoint and a request: the path
\* segment, or "<none>" when send fails before the GET, and the query.
WouldDispatch(ep, req) ==
    LET path == resolve_endpoint(ep, req)
    IN  [path |-> IF path.kind = "Ok" THEN path.value ELSE "<none>",
         query |-> queries(req)]

LegalKey(key) == \A i \in 1..Len(key) : key[i] \notin {"\n", "\r", "\f"}

-----------------------------------------------------------------------------
\* The wire names of the query parameters, one per builder method that
\* stores a parameter.
WireNames ==
    {"q", "page", "page-size", "order-by", "order-date", "show-fields",
     "show-tags", "query-fields", "from-date", "to-date", "use-date",
     "show-section", "section", "reference", "reference-type", "tag", "ids",
     "production-office", "lang", "star-rating", "type", "show-blocks"}

\* The builder methods that store a parameter.
SetterOps ==
    {"search", "page", "page_size", "order_by", "order_date", "show_fields",
     "show_tags", "query_fields", "date_from", "datetime_from", "date_to",
     "datetime_to", "use_date", "show_section", "section", "reference",
     "reference_type", "tag", "ids", "production_office", "lang",
     "star_rating", "tag_type", "show_blocks"}

\* C22: every key of the pending request is one of the twenty-two wire
\* names, the one its setter fixes: no string passed by the caller becomes
\* a key.
C22_KeysAreWireNames ==
    /\ DOMAIN request \subseteq WireNames
    /\ (last.op \in SetterOps /\ last.out = Returned /\ last.replaced # None)
           => WireKey(last.op) \in DOMAIN request
    /\ (last.op = "send" /\ last.out.kind = "sent" /\ last.out.gets > 0)
           => {kv[1] : kv \in last.out.wire[1].query} \subseteq WireNames

C22_Witness ==
    /\ last.op = "tag_type"
    /\ last.args = <<"tv-and-radio/us-television">>
    /\ DOMAIN request = {"type", "reference"}
    /\ request["type"] = "tv-and-radio/us-television"
    /\ request["reference"] = "isbn"

\* C23: build_request starts with an empty request and the Content
\* endpoint; endpoint(e) sets the endpoint and leaves the request alone;
\* every setter leaves the endpoint alone and sends nothing.
C23_Frame ==
    /\ (request = EmptyMap /\ endpoint = "Endpoint::Content")
    /\ [][(last'.op = "build_request"
              => request' = EmptyMap /\ endpoint' = "Endpoint::Content")
           /\ (last'.op = "endpoint"
              => (request' = request /\ endpoint' = last'.args[1]
                  /\ last'.out = Returned))
           /\ (last'.op \in SetterOps
              => (endpoint' = endpoint
                  /\ last'.out \in {Returned, Panicked}))]_vars

C23_Witness ==
    /\ last.op = "endpoint"
    /\ last.args = <<"Endpoint::Tags">>
    /\ endpoint = "Endpoint::Tags"
    /\ DOMAIN request = {"q", "page"}

-----------------------------------------------------------------------------
\* The words of each variant's name, in lower case.
Words(v) ==
    CASE v = "OrderBy::Newest" -> <<"newest">>
      [] v = "OrderBy::Oldest" -> <<"oldest">>
      [] v = "OrderBy::Relevance" -> <<"relevance">>
      [] v = "OrderDate::Published" -> <<"published">>
      [] v = "OrderDate::NewspaperEdition" -> <<"newspaper", "edition">>
      [] v = "OrderDate::LastModified" -> <<"last", "modified">>
      [] v = "UseDate::Published" -> <<"published">>
      [] v = "UseDate::FirstPublication" -> <<"first", "publication">>
      [] v = "UseDate::NewspaperEdition" -> <<"newspaper", "edition">>
      [] v = "UseDate::LastModified" -> <<"last", "modified">>
      [] v = "Field::TrailText" -> <<"trail", "text">>
      [] v = "Field::Headline" -> <<"headline">>
      [] v = "Field::ShowInRelatedContent" -> <<"show", "in", "related", "content">>
      [] v = "Field::Body" -> <<"body">>
      [] v = "Field::BodyText" -> <<"body", "text">>
      [] v = "Field::LastModified" -> <<"last", "modified">>
      [] v = "Field::HasStoryPackage" -> <<"has", "story", "package">>
      [] v = "Field::Score" -> <<"score">>
      [] v = "Field::Standfirst" -> <<"standfirst">>
      [] v = "Field::ShortUrl" -> <<"short", "url">>
      [] v = "Field::Byline" -> <<"byline">>
      [] v = "Field::Thumbnail" -> <<"thumbnail">>
      [] v = "Field::Wordcount" -> <<"wordcount">>
      [] v = "Field::Commentable" -> <<"commentable">>
      [] v = "Field::IsPremoderated" -> <<"is", "premoderated">>
      [] v = "Field::AllowUgc" -> <<"allow", "ugc">>
      [] v = "Field::Publication" -> <<"publication">>
      [] v = "Field::InternalPageCode" -> <<"internal", "page", "code">>
      [] v = "Field::ProductionOffice" -> <<"production", "office">>
      [] v = "Field::ShouldHideAdverts" -> <<"should", "hide", "adverts">>
      [] v = "Field::LiveBloggingNow" -> <<"live", "blogging", "now">>
      [] v = "Field::CommentCloseDate" -> <<"comment", "close", "date">>
      [] v = "Field::StarRating" -> <<"star", "rating">>
      [] v = "Field::All" -> <<"all">>
      [] v = "Tag::Blog" -> <<"blog">>
      [] v = "Tag::Contributor" -> <<"contributor">>
      [] v = "Tag::Keyword" -> <<"keyword">>
      [] v = "Tag::NewspaperBook" -> <<"newspaper", "book">>
      [] v = "Tag::NewspaperBookSection" -> <<"newspaper", "book", "section">>
      [] v = "Tag::Publication" -> <<"publication">>
      [] v = "Tag::Series" -> <<"series">>
      [] v = "Tag::Tone" -> <<"tone">>
      [] v = "Tag::Type" -> <<"type">>
      [] v = "Tag::All" -> <<"all">>
      [] v = "Endpoint::Content" -> <<"content">>
      [] v = "Endpoint::Tags" -> <<"tags">>
      [] v = "Endpoint::Sections" -> <<"sections">>
      [] v = "Endpoint::Editions" -> <<"editions">>
      [] v = "Endpoint::SingleItem" -> <<"single", "item">>

\* A word with its first letter in upper case.
Capitalised(w) ==
    CASE w = "adverts" -> "Adverts"
      [] w = "blogging" -> "Blogging"
      [] w = "close" -> "Close"
      [] w = "code" -> "Code"
      [] w = "content" -> "Content"
      [] w = "date" -> "Date"
      [] w = "hide" -> "Hide"
      [] w = "in" -> "In"
      [] w = "modified" -> "Modified"
      [] w = "now" -> "Now"
      [] w = "office" -> "Office"
      [] w = "package" -> "Package"
      [] w = "page" -> "Page"
      [] w = "premoderated" -> "Premoderated"
      [] w = "rating" -> "Rating"
      [] w = "related" -> "Related"
      [] w = "story" -> "Story"
      [] w = "text" -> "Text"
      [] w = "ugc" -> "Ugc"
      [] w = "url" -> "Url"

RECURSIVE Hyphenated(_)
Hyphenated(ws) ==
    IF Len(ws) = 1 THEN ws[1] ELSE ws[1] \o "-" \o Hyphenated(Tail(ws))

RECURSIVE Humped(_)
Humped(ws) ==
    IF ws = << >> THEN "" ELSE Capitalised(ws[1]) \o Humped(Tail(ws))

CamelCased(ws) == ws[1] \o Humped(Tail(ws))

KebabVocabularies == {OrderBy, OrderDate, UseDate, Tag, Endpoint}
Vocabularies == KebabVocabularies \cup {Field}

\* C24: within each vocabulary the wire token is defined for every value,
\* is non-empty and differs from the token of every other value; it is the
\* words of the name joined by hyphens in lower case, and for Field the
\* words in camelCase; order_by, order_date and use_date store that token
\* under their key.
C24_Encoding ==
    /\ last.op = "build_request"
           => /\ \A V \in KebabVocabularies :
                    \A v \in V : to_string(v) = Hyphenated(Words(v))
              /\ \A v \in Field : to_string(v) = CamelCased(Words(v))
              /\ \A V \in Vocabularies :
                    \A v, w \in V :
                       /\ Len(to_string(v)) > 0
                       /\ v # w => to_string(v) # to_string(w)
              /\ to_string("OrderDate::NewspaperEdition") = "newspaper-edition"
              /\ to_string("UseDate::FirstPublication") = "first-publication"
              /\ to_string("Field::ShortUrl") = "shortUrl"
    /\ (last.op \in {"order_by", "order_date", "use_date"} /\ last.out = Returned)
           => /\ DOMAIN request = {WireKey(last.op)}
              /\ request[WireKey(last.op)] = Hyphenated(Words(last.args[1]))
    /\ (last.op \in {"show_fields", "query_fields"} /\ Len(last.args[1]) = 1)
           => request[WireKey(last.op)] = CamelCased(Words(last.args[1][1]))
    /\ (last.op = "show_tags" /\ Len(last.args[1]) = 1)
           => request[WireKey(last.op)] = Hyphenated(Words(last.args[1][1]))

C24_Witness ==
    /\ last.op = "use_date"
    /\ last.args = <<"UseDate::FirstPublication">>
    /\ request = [k \in {"use-date"} |-> "first-publication"]

-----------------------------------------------------------------------------
\* The send that has just run failed, with an error of this variant.
FailedWith(variant) ==
    /\ last.op = "send"
    /\ last.out.kind = "sent"
    /\ last.out.result.kind = "Err"
    /\ last.out.result.value.variant = variant

\* C25 as stated: a transport failure and a decode failure are reported as
\* two distinct error kinds; a send that fails to reach the service and the
\* next one, which fails to decode the body, end in different variants.
C25_DistinctKinds ==
    [][(/\ last.op = "send" /\ last'.op = "send"
        /\ last.args[1].kind = "transport_error"
        /\ last'.args[1].kind = "decode_error"
        /\ last.out.kind = "sent" /\ last.out.gets > 0
        /\ last'.out.kind = "sent" /\ last'.out.gets > 0)
          => last.out.result.value.variant
                 # last'.out.result.value.variant]_vars

\* C25: a transport failure and a decode failure are both reported as
\* ClientError, which wraps the HTTP client's own error; no other outcome
\* is a ClientError, so the kind is distinct from MissingQueryParameter and
\* ApiError, and the two failures differ only in the wrapped error.
C25_ClientError ==
    /\ (Dispatched /\ last.args[1].kind = "transport_error")
           => last.out.result = Err(ClientError("transport"))
    /\ (Dispatched /\ last.args[1].kind = "decode_error")
           => last.out.result = Err(ClientError("decode"))
    /\ FailedWith("ClientError")
           => /\ last.out.gets = 1
              /\ last.args[1].kind \in {"transport_error", "decode_error"}
    /\ FailedWith("MissingQueryParameter") => last.out.gets = 0
    /\ FailedWith("ApiError") => last.args[1].kind = "body"

C25_Witness ==
    /\ FailedWith("ClientError")
    /\ last.args[1].kind = "decode_error"
    /\ last.out.result.value.of = "decode"
    /\ last.out.gets = 1
    /\ DOMAIN request = {"q"}

-----------------------------------------------------------------------------
\* The pairs a request is sent with.
Pairs(req) == {<<k, req[k]>> : k \in DOMAIN req}

\* A step of one builder that neither reads nor writes the other.
IndependentStep ==
    /\ api_key' = api_key
    /\ other'.api_key = other.api_key
    /\ last'.op # "switch" => other' = other
    /\ last'.op = "switch" => (Builder' = other /\ other' = Builder)
    /\ request' = written'
    /\ (last'.op = "send" /\ last'.out.kind = "sent" /\ last'.out.gets > 0)
          => /\ last'.out.wire[1].query = Pairs(written)
             /\ last'.out.wire[1].path = PathSegment(endpoint, written)

\* C26: two builders from one client share nothing that changes. A call on
\* one builder leaves the other as it was; a builder is resumed exactly as
\* its owner left it; each builder's request holds what was written to that
\* builder and nothing else, and that is what its send puts on the wire;
\* the API key of both is the client's and never changes.
C26_NoSharedState ==
    /\ (api_key = other.api_key /\ request = written
                                /\ other.request = other.written)
    /\ [][IndependentStep]_vars

C26_Witness ==
    /\ last.op = "send"
    /\ last.out.kind = "sent"
    /\ last.out.gets = 1
    /\ last.out.wire[1].query = {<<"page", "10">>}
    /\ last.out.wire[1].path = "tags"
    /\ last.out.result.kind = "Ok"
    /\ request = EmptyMap
    /\ endpoint = "Endpoint::Tags"
    /\ other.request = [k \in {"q"} |-> "politics"]
    /\ other.endpoint = "Endpoint::SingleItem"

-----------------------------------------------------------------------------
\* C27: with no top-level message and a payload whose status is "error" and
\* which has no message of its own, send returns Ok with that payload, its
\* status still "error", and the request is cleared.
C27_SilentErrorIsOk ==
    (/\ Decoded
     /\ Envelope.message = None
     /\ Envelope.response # None
     /\ Envelope.response[1].status = Some("error")
     /\ Envelope.response[1].message = None)
        => /\ last.out.result.kind = "Ok"
           /\ last.out.result.value = Envelope.response[1]
           /\ last.out.result.value.status = Some("error")
           /\ request = EmptyMap

C27_Witness ==
    /\ Decoded
    /\ Envelope = Response(None, Some(SilentErrorPayload))
    /\ last.out.result = Ok(SilentErrorPayload)
    /\ last.out.wire[1].query = {<<"q", "politics">>}
    /\ request = EmptyMap

\* A datetime_from / datetime_to call whose arguments are no date-time.
InvalidDatetimeCall ==
    last'.op \in DatetimeOps /\ ~IsDateTime(last'.args)

\* C28: datetime_from / datetime_to with arguments that are no date-time
\* leave every entry of the request as it was; from-date and to-date keep
\* the value an earlier date_from, date_to or datetime call stored.
C28_InvalidKeepsEarlier ==
    [][InvalidDatetimeCall
          => /\ \A k \in WireNames : get(request', k) = get(request, k)
             /\ DOMAIN request' = DOMAIN request
             /\ written' = written]_vars

C28_Witness ==
    /\ last.op = "datetime_to"
    /\ last.args = <<2021, 13, 40, 0, 999, 0, 5>>
    /\ last.out = Returned
    /\ DOMAIN request = {"to-date", "from-date"}
    /\ request["to-date"] = "2021-12-31T00:00:00+05:00"
    /\ request["from-date"] = "2020-1-1"

\* Two sends in a row, both of which issued a GET.
FollowUp ==
    /\ last.op = "send" /\ last.out.kind = "sent" /\ last.out.gets > 0
    /\ last'.op = "send" /\ last'.out.kind = "sent" /\ last'.out.gets > 0

\* C29: send leaves the endpoint as endpoint() last set it, whatever its
\* outcome; a send that follows another on the same builder goes to the same
\* endpoint.
C29_SendKeepsEndpoint ==
    [][/\ last'.op = "send" => endpoint' = endpoint
       /\ (FollowUp /\ endpoint # "Endpoint::SingleItem")
             => last'.out.wire[1].path = last.out.wire[1].path]_vars

C29_Witness ==
    /\ last.op = "send"
    /\ last.out.kind = "sent"
    /\ last.out.result.kind = "Ok"
    /\ last.out.wire[1].path = "editions"
    /\ endpoint = "Endpoint::Editions"
    /\ request = EmptyMap

\* The send that has just run returned Ok.
Succeeded ==
    last.op = "send" /\ last.out.kind = "sent" /\ last.out.result.kind = "Ok"

\* C30: with the SingleItem endpoint, a send right after a send that
\* returned Ok, with no call in between, fails with
\* MissingQueryParameter("q") and issues no GET: the send that succeeded
\* removed "q" and kept the endpoint.
C30_SecondSendMissesQ ==
    [][(Succeeded /\ endpoint = "Endpoint::SingleItem" /\ last'.op = "send")
          => /\ last'.out = Sent(Err(MissingQueryParameter("q")), 0, None)
             /\ endpoint' = "Endpoint::SingleItem"
             /\ request' = EmptyMap]_vars

C30_Witness ==
    /\ Succeeded
    /\ endpoint = "Endpoint::SingleItem"
    /\ last.out.wire[1].path = "books/2022/jan/01/2022-in-books"
    /\ "q" \notin DOMAIN request
    /\ written = EmptyMap

=============================================================================
